---- MODULE Spec2Model ----
(***************************************************************************)
(* Model of the generic hash table of hash_table.c / hash_table.h:         *)
(* a fixed array of bucket pointers, per bucket an ordered chain of fill   *)
(* nodes (one per distinct key) and per fill node a FIFO chain of          *)
(* duplicate nodes.  Nodes live in three heaps (sequences); a pointer is   *)
(* an index into its heap and NULL is 0.  Every calloc may fail.           *)
(***************************************************************************)
EXTENDS Integers, Sequences, FiniteSets, TLC

\* ---------------------------------------------------------------- bounds
NumBuckets == 2      \* number_of_buckets handed to Hash_Table_Init
NumKeys == 5         \* patterns are 0 .. NumKeys-1
NumObjects == 6      \* object references are 1 .. NumObjects
MaxInserts == 3      \* successful insertions per run
MaxRecords == 3      \* largest max_num_records handed to Hash_Table_Match
MaxInitCount == 2    \* largest value held in *number_of_objects_found before a call

NULL == 0

Patterns == 0 .. (NumKeys - 1)
Objects == 1 .. NumObjects

\* The pattern an object is stored under (its key).
KeyOf(object) == (object - 1) % NumKeys

\* ------------------------------------------------- caller-supplied strategies
\* hash_function: pattern -> index below max_number
Hash(pattern, max_number) == pattern % max_number

\* A hash_function that breaks its contract: it ignores max_number.
HashUnchecked(pattern, max_number) == pattern

\* compare_function: < 0 if object1 is before object2, 0 if same, > 0 if after
Compare(object1, object2) ==
    IF KeyOf(object1) < KeyOf(object2) THEN -1
    ELSE IF KeyOf(object1) = KeyOf(object2) THEN 0
    ELSE 1

\* search_function: 1 if the object matches the search string
Search(search_string, object) == IF KeyOf(object) = search_string THEN 1 ELSE 0

\* ---------------------------------------------------------------- state
VARIABLES table,      \* the hash_table_t with the nodes it owns
          inserted,   \* history: the objects successfully inserted, in order
          last,       \* the last call: its arguments and what it returned
          freed       \* what Hash_Table_Free did, in order; << >> before it ran

vars == <<table, inserted, last, freed>>

\* struct hash_table_bucket_t
NewBucket(fill) == [first_fill |-> fill, last_fill |-> fill]

\* struct hash_table_fill_t, zeroed by calloc, object set
NewFill(object) ==
    [object |-> object, next_fill |-> NULL,
     first_duplicate |-> NULL, last_duplicate |-> NULL]

\* struct hash_table_duplicate_t, zeroed by calloc, object set
NewDuplicate(object) == [object |-> object, next_duplicate |-> NULL]

\* Hash_Table_Init: zeroed bucket array, counters 0, strategies stored.
\* hash_fun: "modulo" (Hash) or "unchecked" (HashUnchecked); free_fun: TRUE
\* if a free strategy is handed in, FALSE if it is NULL.
Hash_Table_Init(number_of_buckets, hash_fun, free_fun) ==
    [buckets |-> [i \in 0 .. (number_of_buckets - 1) |-> NULL],
     number_of_total_buckets |-> number_of_buckets,
     number_of_buckets_filled |-> 0,
     number_of_collisions |-> 0,
     number_of_duplicates |-> 0,
     hash_function |-> hash_fun,
     free_function |-> free_fun,
     bucket_heap |-> << >>,
     fill_heap |-> << >>,
     dup_heap |-> << >>]

\* table->hash_function(pattern, table->number_of_total_buckets)
HashOf(t, pattern) ==
    IF t.hash_function = "modulo"
    THEN Hash(pattern, t.number_of_total_buckets)
    ELSE HashUnchecked(pattern, t.number_of_total_buckets)

\* Whether table->buckets[index] is an element of the bucket array.
InBounds(t, index) == index \in DOMAIN t.buckets

\* InsertWalk without the break: a fill that compares after the new object is
\* stepped over like one that compares before it.
RECURSIVE InsertWalk_NeverBreaks(_, _, _, _)
InsertWalk_NeverBreaks(t, object, current_bucket_fill, prev_bucket_fill) ==
    IF current_bucket_fill = NULL
    THEN [duplicate |-> FALSE, current |-> NULL, prev |-> prev_bucket_fill]
    ELSE IF Compare(t.fill_heap[current_bucket_fill].object, object) = 0
    THEN [duplicate |-> TRUE, current |-> current_bucket_fill,
          prev |-> prev_bucket_fill]
    ELSE InsertWalk_NeverBreaks(t, object,
                                t.fill_heap[current_bucket_fill].next_fill,
                                current_bucket_fill)

\* InsertWalk without the duplicate test: a fill that compares equal stops the
\* walk like one that compares after the new object.
RECURSIVE InsertWalk_NoDuplicateTest(_, _, _, _)
InsertWalk_NoDuplicateTest(t, object, current_bucket_fill, prev_bucket_fill) ==
    IF current_bucket_fill = NULL
    THEN [duplicate |-> FALSE, current |-> NULL, prev |-> prev_bucket_fill]
    ELSE IF Compare(t.fill_heap[current_bucket_fill].object, object) < 0
    THEN InsertWalk_NoDuplicateTest(t, object,
                                    t.fill_heap[current_bucket_fill].next_fill,
                                    current_bucket_fill)
    ELSE [duplicate |-> FALSE, current |-> current_bucket_fill,
          prev |-> prev_bucket_fill]

\* ---------------------------------------------------------------- Insert
\* The while loop of Hash_Table_Insert: walk the fill chain until a fill
\* compares equal (duplicate), compares after the new object (break), or the
\* chain ends.
RECURSIVE InsertWalk(_, _, _, _)
InsertWalk(t, object, current_bucket_fill, prev_bucket_fill) ==
    IF current_bucket_fill = NULL
    THEN [duplicate |-> FALSE, current |-> NULL, prev |-> prev_bucket_fill]
    ELSE LET compareVal == Compare(t.fill_heap[current_bucket_fill].object, object)
         IN  IF compareVal = 0
             THEN [duplicate |-> TRUE, current |-> current_bucket_fill,
                   prev |-> prev_bucket_fill]
             ELSE IF compareVal < 0
             THEN InsertWalk(t, object,
                             t.fill_heap[current_bucket_fill].next_fill,
                             current_bucket_fill)
             ELSE [duplicate |-> FALSE, current |-> current_bucket_fill,
                   prev |-> prev_bucket_fill]

\* InsertIntoEmptyBucket leaving number_of_buckets_filled as it was.
InsertIntoEmptyBucket_NoCount(t, hashedIndex, object) ==
    LET new_bucket_fill == Len(t.fill_heap) + 1
        new_bucket == Len(t.bucket_heap) + 1
    IN  [t EXCEPT !.fill_heap = Append(@, NewFill(object)),
                  !.bucket_heap = Append(@, NewBucket(new_bucket_fill)),
                  !.buckets[hashedIndex] = new_bucket]

\* InsertIntoEmptyBucket counting the new bucket as a collision.
InsertIntoEmptyBucket_CountsCollision(t, hashedIndex, object) ==
    LET new_bucket_fill == Len(t.fill_heap) + 1
        new_bucket == Len(t.bucket_heap) + 1
    IN  [t EXCEPT !.fill_heap = Append(@, NewFill(object)),
                  !.bucket_heap = Append(@, NewBucket(new_bucket_fill)),
                  !.buckets[hashedIndex] = new_bucket,
                  !.number_of_collisions = @ + 1]

\* Empty bucket: new bucket with one fill, buckets-filled counted.
InsertIntoEmptyBucket(t, hashedIndex, object) ==
    LET new_bucket_fill == Len(t.fill_heap) + 1
        new_bucket == Len(t.bucket_heap) + 1
    IN  [t EXCEPT !.fill_heap = Append(@, NewFill(object)),
                  !.bucket_heap = Append(@, NewBucket(new_bucket_fill)),
                  !.buckets[hashedIndex] = new_bucket,
                  !.number_of_buckets_filled = @ + 1]

\* InsertDuplicate counting the new node as a collision.
InsertDuplicate_CountsCollision(t, current_bucket_fill, object) ==
    LET new_node_duplicate == Len(t.dup_heap) + 1
        current_dup == t.fill_heap[current_bucket_fill].last_duplicate
        heap1 == Append(t.dup_heap, NewDuplicate(object))
        heap2 == IF current_dup # NULL
                 THEN [heap1 EXCEPT ![current_dup].next_duplicate = new_node_duplicate]
                 ELSE heap1
        fill1 == IF current_dup # NULL
                 THEN t.fill_heap
                 ELSE [t.fill_heap EXCEPT
                         ![current_bucket_fill].first_duplicate = new_node_duplicate]
        fill2 == [fill1 EXCEPT
                    ![current_bucket_fill].last_duplicate = new_node_duplicate]
    IN  [t EXCEPT !.dup_heap = heap2,
                  !.fill_heap = fill2,
                  !.number_of_collisions = @ + 1]

\* Duplicate: new node appended after last_duplicate, duplicates counted.
InsertDuplicate(t, current_bucket_fill, object) ==
    LET new_node_duplicate == Len(t.dup_heap) + 1
        current_dup == t.fill_heap[current_bucket_fill].last_duplicate
        heap1 == Append(t.dup_heap, NewDuplicate(object))
        heap2 == IF current_dup # NULL
                 THEN [heap1 EXCEPT ![current_dup].next_duplicate = new_node_duplicate]
                 ELSE heap1
        fill1 == IF current_dup # NULL
                 THEN t.fill_heap
                 ELSE [t.fill_heap EXCEPT
                         ![current_bucket_fill].first_duplicate = new_node_duplicate]
        fill2 == [fill1 EXCEPT
                    ![current_bucket_fill].last_duplicate = new_node_duplicate]
    IN  [t EXCEPT !.dup_heap = heap2,
                  !.fill_heap = fill2,
                  !.number_of_duplicates = @ + 1]

\* InsertFill that never moves last_fill.
InsertFill_KeepsLastFill(t, hashedIndex, current_bucket_fill, prev_bucket_fill, object) ==
    LET new_bucket_fill == Len(t.fill_heap) + 1
        bucket == t.buckets[hashedIndex]
        node == IF current_bucket_fill # NULL
                THEN [NewFill(object) EXCEPT !.next_fill = current_bucket_fill]
                ELSE NewFill(object)
        fill1 == Append(t.fill_heap, node)
        fill2 == IF prev_bucket_fill # NULL
                 THEN [fill1 EXCEPT ![prev_bucket_fill].next_fill = new_bucket_fill]
                 ELSE fill1
        bh2 == IF prev_bucket_fill # NULL
               THEN t.bucket_heap
               ELSE [t.bucket_heap EXCEPT ![bucket].first_fill = new_bucket_fill]
    IN  [t EXCEPT !.fill_heap = fill2,
                  !.bucket_heap = bh2,
                  !.number_of_collisions = @ + 1]

\* Collision: new fill spliced between prev and current, collisions counted.
InsertFill(t, hashedIndex, current_bucket_fill, prev_bucket_fill, object) ==
    LET new_bucket_fill == Len(t.fill_heap) + 1
        bucket == t.buckets[hashedIndex]
        node == IF current_bucket_fill # NULL
                THEN [NewFill(object) EXCEPT !.next_fill = current_bucket_fill]
                ELSE NewFill(object)
        fill1 == Append(t.fill_heap, node)
        fill2 == IF prev_bucket_fill # NULL
                 THEN [fill1 EXCEPT ![prev_bucket_fill].next_fill = new_bucket_fill]
                 ELSE fill1
        bh1 == IF current_bucket_fill # NULL
               THEN t.bucket_heap
               ELSE [t.bucket_heap EXCEPT ![bucket].last_fill = new_bucket_fill]
        bh2 == IF prev_bucket_fill # NULL
               THEN bh1
               ELSE [bh1 EXCEPT ![bucket].first_fill = new_bucket_fill]
    IN  [t EXCEPT !.fill_heap = fill2,
                  !.bucket_heap = bh2,
                  !.number_of_collisions = @ + 1]

InsertResult(t, ret, status, oob) ==
    [table |-> t, ret |-> ret, status |-> status, oob |-> oob]

\* Hash_Table_Insert with a bounds check: an index outside the bucket
\* array is refused and nothing is accessed.
InsertOutOfBounds_Rejected(t, object, failAt, ub) ==
    InsertResult(t, 0, "none", FALSE)

\* Hash_Table_Insert when hashedIndex is no index of the bucket array: the
\* code reads and writes table->buckets[hashedIndex] all the same.  ub: what
\* that access does ("abort": the process dies; "silent": the slot reads as
\* NULL and the store of the new bucket lands outside the array).
InsertOutOfBounds(t, object, failAt, ub) ==
    IF ub = "abort" THEN InsertResult(t, 0, "abort", TRUE)
    ELSE IF failAt \in {1, 2} THEN InsertResult(t, 0, "none", TRUE)
    ELSE InsertResult(
           [t EXCEPT !.fill_heap = Append(@, NewFill(object)),
                     !.bucket_heap = Append(@, NewBucket(Len(t.fill_heap) + 1)),
                     !.number_of_buckets_filled = @ + 1],
           1, "none", TRUE)

\* Hash_Table_Insert that links a new fill before the allocation that fails
\* in a non-empty bucket, and does not roll it back.
Hash_Table_Insert_LinksThenFails(t, object, pattern, failAt, ub) ==
    LET hashedIndex == HashOf(t, pattern)
    IN  IF ~InBounds(t, hashedIndex)
        THEN InsertOutOfBounds(t, object, failAt, ub)
        ELSE IF t.buckets[hashedIndex] = NULL
        THEN IF failAt \in {1, 2}
             THEN InsertResult(t, 0, "none", FALSE)
             ELSE InsertResult(InsertIntoEmptyBucket(t, hashedIndex, object),
                               1, "none", FALSE)
        ELSE LET w == InsertWalk(t, object,
                        t.bucket_heap[t.buckets[hashedIndex]].first_fill, NULL)
             IN  IF failAt = 1
                 THEN InsertResult(InsertFill(t, hashedIndex,
                                              IF w.duplicate
                                              THEN t.fill_heap[w.current].next_fill
                                              ELSE w.current,
                                              IF w.duplicate THEN w.current
                                              ELSE w.prev,
                                              object),
                                   0, "none", FALSE)
                 ELSE IF w.duplicate
                 THEN InsertResult(InsertDuplicate(t, w.current, object),
                                   1, "none", FALSE)
                 ELSE InsertResult(InsertFill(t, hashedIndex, w.current, w.prev,
                                              object),
                                   1, "none", FALSE)

\* Hash_Table_Insert.  failAt: which of this call's callocs returns NULL
\* (0: none; the call returns at the first one that does).
Hash_Table_Insert(t, object, pattern, failAt, ub) ==
    LET hashedIndex == HashOf(t, pattern)
    IN  IF ~InBounds(t, hashedIndex)
        THEN InsertOutOfBounds(t, object, failAt, ub)
        ELSE IF t.buckets[hashedIndex] = NULL
        THEN IF failAt = 1
             THEN InsertResult(t, 0, "none", FALSE)
             ELSE IF failAt = 2
             THEN InsertResult(t, 0, "none", FALSE)
             ELSE InsertResult(InsertIntoEmptyBucket(t, hashedIndex, object),
                               1, "none", FALSE)
        ELSE LET w == InsertWalk(t, object,
                        t.bucket_heap[t.buckets[hashedIndex]].first_fill, NULL)
             IN  IF failAt = 1
                 THEN InsertResult(t, 0, "none", FALSE)
                 ELSE IF w.duplicate
                 THEN InsertResult(InsertDuplicate(t, w.current, object),
                                   1, "none", FALSE)
                 ELSE InsertResult(InsertFill(t, hashedIndex, w.current, w.prev,
                                              object),
                                   1, "none", FALSE)

\* MatchWalk without the search test: the head of the chain is the match.
MatchWalk_FirstFill(t, pattern, current_fill) == current_fill

\* ---------------------------------------------------------------- Match
\* The fill loop of Hash_Table_Match: first fill the search strategy accepts.
RECURSIVE MatchWalk(_, _, _)
MatchWalk(t, pattern, current_fill) ==
    IF current_fill = NULL THEN NULL
    ELSE IF Search(pattern, t.fill_heap[current_fill].object) = 1
    THEN current_fill
    ELSE MatchWalk(t, pattern, t.fill_heap[current_fill].next_fill)

\* The duplicate loop of Hash_Table_Match.  found_records[i] of the code is
\* records[i + 1] here.
RECURSIVE CollectDuplicates(_, _, _, _, _)
CollectDuplicates(t, current_dup, records, count, max_num_records) ==
    IF current_dup # NULL /\ count < max_num_records
    THEN CollectDuplicates(t, t.dup_heap[current_dup].next_duplicate,
                           [records EXCEPT ![count + 1] = t.dup_heap[current_dup].object],
                           count + 1, max_num_records)
    ELSE [records |-> records, count |-> count]

MatchResult(status, records, count, alloc_failed, oob) ==
    [status |-> status, found_records |-> records, count |-> count,
     alloc_failed |-> alloc_failed, oob |-> oob]

\* MatchFound zeroing the count when the allocation fails.
MatchFound_ZeroesCount(t, current_fill, count0, max_num_records, allocFail, ub) ==
    IF allocFail
    THEN MatchResult("NULL", << >>, 0, TRUE, FALSE)
    ELSE IF max_num_records = 0
    THEN IF ub = "abort"
         THEN MatchResult("abort", << >>, count0, FALSE, TRUE)
         ELSE MatchResult("array", << >>, count0 + 1, FALSE, TRUE)
    ELSE LET zeroed == [i \in 1 .. max_num_records |-> NULL]
             first == [zeroed EXCEPT ![1] = t.fill_heap[current_fill].object]
             c == CollectDuplicates(t, t.fill_heap[current_fill].first_duplicate,
                                    first, count0 + 1, max_num_records)
         IN  MatchResult("array", c.records, c.count, FALSE, FALSE)

\* Lines 350-374 of Hash_Table_Match, run once a fill matched: allocate the
\* result array, store the representative, then the duplicates.  allocFail:
\* the calloc returns NULL; ub: what the store to found_records[0] does when
\* the array has no element 0 ("silent": it lands outside the array and the
\* call goes on; "abort": the process dies).
MatchFound(t, current_fill, count0, max_num_records, allocFail, ub) ==
    IF allocFail
    THEN MatchResult("NULL", << >>, count0, TRUE, FALSE)
    ELSE IF max_num_records = 0
    THEN IF ub = "abort"
         THEN MatchResult("abort", << >>, count0, FALSE, TRUE)
         ELSE MatchResult("array", << >>, count0 + 1, FALSE, TRUE)
    ELSE LET zeroed == [i \in 1 .. max_num_records |-> NULL]
             first == [zeroed EXCEPT ![1] = t.fill_heap[current_fill].object]
             c == CollectDuplicates(t, t.fill_heap[current_fill].first_duplicate,
                                    first, count0 + 1, max_num_records)
         IN  MatchResult("array", c.records, c.count, FALSE, FALSE)

\* Hash_Table_Match when key is no index of the bucket array: the code reads
\* table->buckets[key] all the same.  ub: what that read does ("abort": the
\* process dies; "silent": the slot reads as NULL).
MatchOutOfBounds(count0, ub) ==
    IF ub = "abort"
    THEN MatchResult("abort", << >>, count0, FALSE, TRUE)
    ELSE MatchResult("NULL", << >>, 0, FALSE, TRUE)

\* Hash_Table_Match.  count0: *number_of_objects_found on entry.
Hash_Table_Match(t, pattern, count0, max_num_records, allocFail, ub) ==
    LET key == HashOf(t, pattern)
        bucket == t.buckets[key]
    IN  IF ~InBounds(t, key)
        THEN MatchOutOfBounds(count0, ub)
        ELSE IF bucket = NULL
        THEN MatchResult("NULL", << >>, 0, FALSE, FALSE)
        ELSE LET current_fill == MatchWalk(t, pattern, t.bucket_heap[bucket].first_fill)
             IN  IF current_fill = NULL
                 THEN MatchResult("NULL", << >>, count0, FALSE, FALSE)
                 ELSE MatchFound(t, current_fill, count0, max_num_records,
                                 allocFail, ub)

\* Hash_Table_First_Match: Match with a zeroed count and room for one record.
Hash_Table_First_Match(t, pattern, allocFail, ub) ==
    LET m == Hash_Table_Match(t, pattern, 0, 1, allocFail, ub)
    IN  [ret |-> IF m.status = "array" THEN m.found_records[1] ELSE NULL,
         status |-> IF m.status = "abort" THEN "abort" ELSE "none",
         alloc_failed |-> m.alloc_failed,
         oob |-> m.oob]

\* Hash_Table_Insert_No_Duplicate handing on the 0 of a failed Insert.
Hash_Table_Insert_No_Duplicate_HandsOnZero(t, object, pattern, allocFail, failAt, ub) ==
    LET m == Hash_Table_Match(t, pattern, 0, 1, allocFail, ub)
    IN  IF m.status = "abort"
        THEN [table |-> t, ret |-> 0, found |-> NULL, status |-> "abort",
              alloc_failed |-> FALSE, oob |-> m.oob]
        ELSE IF m.count = 0
        THEN LET r == Hash_Table_Insert(t, object, pattern, failAt, ub)
             IN  [table |-> r.table,
                  ret |-> r.ret,
                  found |-> NULL,
                  status |-> r.status,
                  alloc_failed |-> m.alloc_failed \/ (r.ret = 0 /\ r.status = "none"),
                  oob |-> m.oob \/ r.oob]
        ELSE [table |-> t, ret |-> 0, found |-> m.found_records[1],
              status |-> "none", alloc_failed |-> FALSE, oob |-> m.oob]

\* Hash_Table_Insert_No_Duplicate.  found stays NULL unless 0 is returned.
Hash_Table_Insert_No_Duplicate(t, object, pattern, allocFail, failAt, ub) ==
    LET m == Hash_Table_Match(t, pattern, 0, 1, allocFail, ub)
    IN  IF m.status = "abort"
        THEN [table |-> t, ret |-> 0, found |-> NULL, status |-> "abort",
              alloc_failed |-> FALSE, oob |-> m.oob]
        ELSE IF m.count = 0
        THEN LET r == Hash_Table_Insert(t, object, pattern, failAt, ub)
             IN  [table |-> r.table,
                  ret |-> IF r.ret = 0 THEN -1 ELSE 1,
                  found |-> NULL,
                  status |-> r.status,
                  alloc_failed |-> m.alloc_failed \/ (r.ret = 0 /\ r.status = "none"),
                  oob |-> m.oob \/ r.oob]
        ELSE [table |-> t, ret |-> 0, found |-> m.found_records[1],
              status |-> "none", alloc_failed |-> FALSE, oob |-> m.oob]

\* ---------------------------------------------------------------- Free
FreeEvent(ev, kind, node, object) ==
    [ev |-> ev, kind |-> kind, node |-> node, object |-> object]

\* table->free_function(object), if a free strategy was handed in.
CallFreeFunction(t, kind, node, object) ==
    IF t.free_function
    THEN << FreeEvent("free_function", kind, node, object) >>
    ELSE << >>

\* The duplicate loop of Hash_Table_Free.
RECURSIVE FreeDuplicates(_, _)
FreeDuplicates(t, current_dup) ==
    IF current_dup = NULL THEN << >>
    ELSE LET next_dup == t.dup_heap[current_dup].next_duplicate
         IN  CallFreeFunction(t, "duplicate", current_dup,
                              t.dup_heap[current_dup].object)
               \o << FreeEvent("free", "duplicate", current_dup, NULL) >>
               \o FreeDuplicates(t, next_dup)

\* FreeFills handing the representative to the free strategy before the
\* duplicates of its chain.
RECURSIVE FreeFills_RepresentativeFirst(_, _)
FreeFills_RepresentativeFirst(t, current_fill) ==
    IF current_fill = NULL THEN << >>
    ELSE LET next_fill == t.fill_heap[current_fill].next_fill
         IN  CallFreeFunction(t, "fill", current_fill,
                              t.fill_heap[current_fill].object)
               \o FreeDuplicates(t, t.fill_heap[current_fill].first_duplicate)
               \o << FreeEvent("free", "fill", current_fill, NULL) >>
               \o FreeFills_RepresentativeFirst(t, next_fill)

\* The fill loop of Hash_Table_Free.
RECURSIVE FreeFills(_, _)
FreeFills(t, current_fill) ==
    IF current_fill = NULL THEN << >>
    ELSE LET next_fill == t.fill_heap[current_fill].next_fill
         IN  FreeDuplicates(t, t.fill_heap[current_fill].first_duplicate)
               \o CallFreeFunction(t, "fill", current_fill,
                                   t.fill_heap[current_fill].object)
               \o << FreeEvent("free", "fill", current_fill, NULL) >>
               \o FreeFills(t, next_fill)

\* The bucket loop of Hash_Table_Free, from slot i on.
RECURSIVE FreeBuckets(_, _)
FreeBuckets(t, i) ==
    IF i >= t.number_of_total_buckets THEN << >>
    ELSE LET current_bucket == t.buckets[i]
         IN  (IF current_bucket # NULL
              THEN FreeFills(t, t.bucket_heap[current_bucket].first_fill)
                     \o << FreeEvent("free", "bucket", current_bucket, NULL) >>
              ELSE << >>)
               \o FreeBuckets(t, i + 1)

\* Hash_Table_Free: what it hands to the free strategy and what it releases,
\* in order.
Hash_Table_Free(t) ==
    FreeBuckets(t, 0)
      \o << FreeEvent("free", "buckets", NULL, NULL),
            FreeEvent("free", "table", NULL, NULL) >>

\* ---------------------------------------------------------------- Size
\* sizeof on an LP64 build.
SizeofTable == 72
SizeofBucketPointer == 8
SizeofBucket == 16
SizeofFill == 32
SizeofDuplicate == 16

\* Hash_Table_Size without the duplicate term.
Hash_Table_Size_NoDuplicates(t) ==
    SizeofTable + t.number_of_total_buckets * SizeofBucketPointer
      + t.number_of_buckets_filled * SizeofBucket
      + (t.number_of_buckets_filled + t.number_of_collisions) * SizeofFill

\* Hash_Table_Size
Hash_Table_Size(t) ==
    LET table_size == SizeofTable
                        + t.number_of_total_buckets * SizeofBucketPointer
        bucket_size == t.number_of_buckets_filled * SizeofBucket
        bucket_fill_size == (t.number_of_buckets_filled + t.number_of_collisions)
                              * SizeofFill
        bucket_duplicate_size == t.number_of_duplicates * SizeofDuplicate
    IN  table_size + bucket_size + bucket_fill_size + bucket_duplicate_size

\* ---------------------------------------------------------------- actions
\* A call is one step: it runs the whole function and leaves its arguments
\* and results in last.  Return hands the results to the caller, who may then
\* make the next call.  No call is made on a table that was freed.
Call(op, object, pattern, max_num_records, count0, ret, status, records, count, found, alloc_failed, oob) ==
    [op |-> op, object |-> object, pattern |-> pattern,
     max_num_records |-> max_num_records, count0 |-> count0,
     ret |-> ret, status |-> status, found_records |-> records,
     count |-> count, found |-> found, alloc_failed |-> alloc_failed,
     oob |-> oob]

Idle == Call("none", NULL, 0, 0, 0, 0, "none", << >>, 0, NULL, FALSE, FALSE)

\* A table built with a hash strategy that keeps its contract, with or
\* without a free strategy.
Init ==
    /\ \E free_fun \in BOOLEAN :
          table = Hash_Table_Init(NumBuckets, "modulo", free_fun)
    /\ inserted = << >>
    /\ last = Idle
    /\ freed = << >>

\* A table built with a hash strategy that ignores the number of buckets,
\* with NumBuckets buckets or with none.
InitUnchecked ==
    /\ \E number_of_buckets \in {0, NumBuckets} :
          table = Hash_Table_Init(number_of_buckets, "unchecked", TRUE)
    /\ inserted = << >>
    /\ last = Idle
    /\ freed = << >>

Ready == last = Idle /\ freed = << >>

DoInsert ==
    /\ Ready
    /\ \E object \in Objects, failAt \in 0 .. 2, ub \in {"silent", "abort"} :
         LET r == Hash_Table_Insert(table, object, KeyOf(object), failAt, ub)
         IN  /\ r.ret = 1 => Len(inserted) < MaxInserts
             /\ table' = r.table
             /\ inserted' = IF r.ret = 1 THEN Append(inserted, object) ELSE inserted
             /\ last' = Call("Insert", object, KeyOf(object), 0, 0, r.ret,
                             r.status, << >>, 0, NULL,
                             r.ret = 0 /\ r.status = "none", r.oob)
             /\ UNCHANGED freed

DoInsertNoDuplicate ==
    /\ Ready
    /\ \E object \in Objects, allocFail \in BOOLEAN, failAt \in 0 .. 2,
          ub \in {"silent", "abort"} :
         LET r == Hash_Table_Insert_No_Duplicate(table, object, KeyOf(object),
                                                 allocFail, failAt, ub)
         IN  /\ r.ret = 1 => Len(inserted) < MaxInserts
             /\ table' = r.table
             /\ inserted' = IF r.ret = 1 THEN Append(inserted, object) ELSE inserted
             /\ last' = Call("InsertNoDuplicate", object, KeyOf(object), 1, 0,
                             r.ret, r.status, << >>, 0, r.found, r.alloc_failed,
                             r.oob)
             /\ UNCHANGED freed

\* A Match that unlinks the duplicates of the fill it found.
DoMatch_DropsDuplicates ==
    /\ Ready
    /\ \E pattern \in Patterns, count0 \in 0 .. MaxInitCount,
          max_num_records \in 0 .. MaxRecords, allocFail \in BOOLEAN,
          ub \in {"silent", "abort"} :
         LET m == Hash_Table_Match(table, pattern, count0, max_num_records,
                                   allocFail, ub)
             key == HashOf(table, pattern)
             current_fill == IF table.buckets[key] = NULL THEN NULL
                             ELSE MatchWalk(table, pattern,
                                    table.bucket_heap[table.buckets[key]].first_fill)
         IN  /\ last' = Call("Match", NULL, pattern, max_num_records, count0, 0,
                             m.status, m.found_records, m.count, NULL,
                             m.alloc_failed, m.oob)
             /\ table' = IF current_fill = NULL THEN table
                         ELSE [table EXCEPT
                                 !.fill_heap[current_fill].first_duplicate = NULL,
                                 !.fill_heap[current_fill].last_duplicate = NULL]
             /\ UNCHANGED <<inserted, freed>>

DoMatch ==
    /\ Ready
    /\ \E pattern \in Patterns, count0 \in 0 .. MaxInitCount,
          max_num_records \in 0 .. MaxRecords, allocFail \in BOOLEAN,
          ub \in {"silent", "abort"} :
         LET m == Hash_Table_Match(table, pattern, count0, max_num_records,
                                   allocFail, ub)
         IN  /\ last' = Call("Match", NULL, pattern, max_num_records, count0, 0,
                             m.status, m.found_records, m.count, NULL,
                             m.alloc_failed, m.oob)
             /\ UNCHANGED <<table, inserted, freed>>

DoFirstMatch ==
    /\ Ready
    /\ \E pattern \in Patterns, allocFail \in BOOLEAN, ub \in {"silent", "abort"} :
         LET r == Hash_Table_First_Match(table, pattern, allocFail, ub)
         IN  /\ last' = Call("FirstMatch", NULL, pattern, 1, 0, r.ret,
                             r.status, << >>, 0, NULL, r.alloc_failed, r.oob)
             /\ UNCHANGED <<table, inserted, freed>>

DoSize ==
    /\ Ready
    /\ last' = Call("Size", NULL, 0, 0, 0, Hash_Table_Size(table), "none",
                    << >>, 0, NULL, FALSE, FALSE)
    /\ UNCHANGED <<table, inserted, freed>>

\* Hash_Table_Free: the nodes, the bucket array and the table record are
\* released; table keeps what they held when they were released.
DoFree ==
    /\ Ready
    /\ freed' = Hash_Table_Free(table)
    /\ last' = Call("Free", NULL, 0, 0, 0, 0, "none", << >>, 0, NULL, FALSE,
                    FALSE)
    /\ UNCHANGED <<table, inserted>>

\* The call returns to its caller (a process that died does not).
Return ==
    /\ last # Idle
    /\ last.status # "abort"
    /\ last' = Idle
    /\ UNCHANGED <<table, inserted, freed>>

Next ==
    \/ DoInsert
    \/ DoInsertNoDuplicate
    \/ DoMatch
    \/ DoFirstMatch
    \/ DoSize
    \/ DoFree
    \/ Return

Spec == Init /\ [][Next]_vars

\* Only duplicate-guarded insertions (and lookups).
NextNoDup == DoInsertNoDuplicate \/ DoMatch \/ DoFirstMatch \/ Return

SpecNoDup == Init /\ [][NextNoDup]_vars

\* The same calls on a table whose hash strategy breaks its contract.
SpecUnchecked == InitUnchecked /\ [][Next]_vars

\* ------------------------------------------------- reading the structure
\* The fill nodes reached from a fill node via next_fill, in order.
RECURSIVE FillChain(_, _, _)
FillChain(t, fill, fuel) ==
    IF fill = NULL \/ fuel = 0 THEN << >>
    ELSE << fill >> \o FillChain(t, t.fill_heap[fill].next_fill, fuel - 1)

\* The fill nodes of bucket slot i, walked from first_fill.
BucketFills(t, i) ==
    IF t.buckets[i] = NULL THEN << >>
    ELSE FillChain(t, t.bucket_heap[t.buckets[i]].first_fill, Len(t.fill_heap))

\* The duplicate nodes reached from a duplicate node via next_duplicate.
RECURSIVE DupChain(_, _, _)
DupChain(t, dup, fuel) ==
    IF dup = NULL \/ fuel = 0 THEN << >>
    ELSE << dup >> \o DupChain(t, t.dup_heap[dup].next_duplicate, fuel - 1)

\* The duplicate nodes of a fill node, walked from first_duplicate.
FillDuplicates(t, fill) ==
    DupChain(t, t.fill_heap[fill].first_duplicate, Len(t.dup_heap))

\* The objects held by the duplicate chain of a fill node, in chain order.
DupObjects(t, fill) ==
    LET c == FillDuplicates(t, fill)
    IN  [j \in 1 .. Len(c) |-> t.dup_heap[c[j]].object]

Range(seq) == {seq[j] : j \in DOMAIN seq}

\* Every fill node linked into some bucket, every duplicate node linked
\* into some such fill node.
ReachableFills(t) == UNION {Range(BucketFills(t, i)) : i \in DOMAIN t.buckets}
ReachableDups(t) == UNION {Range(FillDuplicates(t, f)) : f \in ReachableFills(t)}

\* The fill nodes of the table whose representative has the key `pattern`.
FillsOfKey(t, pattern) ==
    {f \in ReachableFills(t) : KeyOf(t.fill_heap[f].object) = pattern}

\* The objects inserted so far under `pattern`, in insertion order.
InsertedWith(pattern) == SelectSeq(inserted, LAMBDA o : KeyOf(o) = pattern)

Count(seq, x) == Cardinality({j \in DOMAIN seq : seq[j] = x})

Min(a, b) == IF a < b THEN a ELSE b

\* ---------------------------------------------------------------- claims

\* C1: in every bucket the Fill Entries walked from first_fill via next_fill
\* have representatives in non-decreasing order under the compare strategy.
C1_FillChainsOrdered ==
    \A i \in DOMAIN table.buckets :
        LET c == BucketFills(table, i)
        IN  \A j \in 1 .. (Len(c) - 1) :
                Compare(table.fill_heap[c[j]].object,
                        table.fill_heap[c[j + 1]].object) <= 0

\* C1 witness: a bucket of three Fill Entries of which the last one linked
\* (heap index 3) was spliced in before an older one.
C1_Witness ==
    \E i \in DOMAIN table.buckets :
        LET c == BucketFills(table, i)
        IN  Len(c) = 3 /\ (c[1] = 3 \/ c[2] = 3)

\* C2: for every key with inserted objects there is exactly one Fill Entry
\* in the table, it holds the first of them, and all the others are the
\* Duplicate Entries of its chain; no two Fill Entries of a bucket compare
\* equal.
C2_DuplicateGrouping ==
    /\ \A k \in Patterns :
          LET objs == InsertedWith(k)
              fs == FillsOfKey(table, k)
          IN  IF objs = << >> THEN fs = {}
              ELSE /\ Cardinality(fs) = 1
                   /\ \A f \in fs :
                        /\ table.fill_heap[f].object = Head(objs)
                        /\ Len(DupObjects(table, f)) = Len(objs) - 1
                        /\ \A o \in Objects :
                             Count(DupObjects(table, f), o) = Count(Tail(objs), o)
    /\ \A i \in DOMAIN table.buckets :
          LET c == BucketFills(table, i)
          IN  \A a, b \in 1 .. Len(c) :
                  a # b => Compare(table.fill_heap[c[a]].object,
                                   table.fill_heap[c[b]].object) # 0

\* C2 witness: three objects of one key inserted, not all the same reference,
\* so one Fill Entry carries a chain of two Duplicate Entries.
C2_Witness ==
    \E k \in Patterns :
        /\ Len(InsertedWith(k)) = 3
        /\ Cardinality(Range(InsertedWith(k))) >= 2
        /\ \E f \in FillsOfKey(table, k) : Len(FillDuplicates(table, f)) = 2

\* C3: number_of_buckets_filled + number_of_collisions is the number of
\* distinct keys successfully inserted and the number of Fill Entries in the
\* table; number_of_duplicates is the number of successful duplicate-key
\* inserts and the number of Duplicate Entries in the table.
C3_CounterIdentity ==
    LET keys == {KeyOf(inserted[j]) : j \in DOMAIN inserted}
    IN  /\ table.number_of_buckets_filled + table.number_of_collisions
             = Cardinality(keys)
        /\ table.number_of_buckets_filled + table.number_of_collisions
             = Cardinality(ReachableFills(table))
        /\ table.number_of_duplicates = Len(inserted) - Cardinality(keys)
        /\ table.number_of_duplicates = Cardinality(ReachableDups(table))

\* C3 witness: an insertion has just failed on allocation in a table where
\* each of the three counters has been incremented.
C3_Witness ==
    /\ last.op \in {"Insert", "InsertNoDuplicate"}
    /\ last.alloc_failed
    /\ table.number_of_buckets_filled >= 1
    /\ table.number_of_collisions >= 1
    /\ table.number_of_duplicates >= 1

\* C4: a successful Match(pattern, N) returns exactly
\* min(N, 1 + duplicateCount) objects, for every cap N, 0 included.  Stated
\* for the calls that hand in a zeroed count.
C4_MatchReturnsMin ==
    (last.op = "Match" /\ last.status = "array" /\ last.count0 = 0) =>
        \A f \in FillsOfKey(table, last.pattern) :
            LET n == Min(last.max_num_records, 1 + Len(FillDuplicates(table, f)))
            IN  /\ last.count = n
                /\ Cardinality({j \in DOMAIN last.found_records :
                                   last.found_records[j] # NULL}) = n

\* C5: Match returns the representative at index 0 followed by the objects of
\* its duplicate chain in insertion order, truncated to the cap, and counts
\* them.
C5_MatchInsertionOrder ==
    (last.op = "Match" /\ last.status = "array") =>
        LET all == InsertedWith(last.pattern)
            n == Min(last.max_num_records, Len(all))
        IN  /\ last.count = n
            /\ \A j \in 1 .. n : last.found_records[j] = all[j]

\* C6: whatever count held before the call, on return it is the number of
\* objects found: the number of entries stored in the returned array, and 0
\* when NULL is returned for a miss.
C6_CountIsNumberFound ==
    (last.op = "Match" /\ last.status # "abort" /\ ~last.alloc_failed) =>
        last.count = IF last.status = "array"
                     THEN Cardinality({j \in DOMAIN last.found_records :
                                          last.found_records[j] # NULL})
                     ELSE 0

\* C7: when the table holds a Fill Entry whose key matches the pattern,
\* InsertNoDuplicate returns 0, sets found to that entry's representative and
\* leaves the chains and the counters as they were.
C7_GuardedInsertLeavesTable ==
    [][(last'.op = "InsertNoDuplicate" /\ FillsOfKey(table, last'.pattern) # {}) =>
          /\ last'.ret = 0
          /\ \A f \in FillsOfKey(table, last'.pattern) :
                last'.found = table.fill_heap[f].object
          /\ table' = table]_vars

\* C8: after any sequence of InsertNoDuplicate calls, allocation failures
\* included, no two Fill Entries of a bucket compare equal, every duplicate
\* chain is empty and number_of_duplicates is 0.
C8_NoDuplicateStored ==
    /\ table.number_of_duplicates = 0
    /\ \A f \in ReachableFills(table) : table.fill_heap[f].first_duplicate = NULL
    /\ \A i \in DOMAIN table.buckets :
          LET c == BucketFills(table, i)
          IN  \A a, b \in 1 .. Len(c) :
                  a # b => Compare(table.fill_heap[c[a]].object,
                                   table.fill_heap[c[b]].object) # 0

\* C9: absent allocation failure, FirstMatch(pattern) returns the
\* earliest-inserted object with that key, which is the representative of the
\* key's Fill Entry, however many objects were inserted since; it returns
\* NULL for a pattern never inserted.
C9_FirstMatchIsEarliest ==
    (last.op = "FirstMatch" /\ ~last.alloc_failed) =>
        LET objs == InsertedWith(last.pattern)
        IN  IF objs = << >> THEN last.ret = NULL
            ELSE /\ last.ret # NULL
                 /\ last.ret = Head(objs)
                 /\ \E f \in FillsOfKey(table, last.pattern) :
                       table.fill_heap[f].object = last.ret

\* C9 witness: FirstMatch answered with the first object of a key under which
\* a second insertion was made later, in a bucket whose chain starts with a
\* different key.
C9_Witness ==
    /\ last.op = "FirstMatch"
    /\ last.ret # NULL
    /\ Len(InsertedWith(last.pattern)) >= 2
    /\ \E f \in ReachableFills(table) :
          /\ Hash(KeyOf(table.fill_heap[f].object), NumBuckets)
               = Hash(last.pattern, NumBuckets)
          /\ KeyOf(table.fill_heap[f].object) < last.pattern

\* What the caller of Hash_Table_Match sees: whether the pointer is NULL, and
\* the count.
Observed(m) == << m.status, m.count >>

\* C10 as claimed: the result Match gives for a pattern that is not in the
\* table differs from the result it gives for a pattern that is in the table
\* when the allocation of the result array fails.
C10_MissDiffersFromAllocFailure ==
    \A p, q \in Patterns, count0 \in 0 .. MaxInitCount,
       max_num_records \in 0 .. MaxRecords :
        (FillsOfKey(table, p) = {} /\ FillsOfKey(table, q) # {}) =>
            Observed(Hash_Table_Match(table, p, count0, max_num_records,
                                      FALSE, "silent"))
              # Observed(Hash_Table_Match(table, q, count0, max_num_records,
                                          TRUE, "silent"))

\* C10 amended: a miss and an allocation failure give the same result.  Match
\* returns NULL for both; a miss in a non-empty bucket and an allocation
\* failure both leave the count as it was (a miss in an empty bucket sets it
\* to 0); FirstMatch returns NULL for both.
C10_MissAndAllocFailureAlike ==
    LET miss == InsertedWith(last.pattern) = << >>
        empty == \A j \in DOMAIN inserted :
                    Hash(KeyOf(inserted[j]), NumBuckets)
                      # Hash(last.pattern, NumBuckets)
    IN  /\ (last.op = "Match" /\ (miss \/ last.alloc_failed)) =>
              /\ last.status = "NULL"
              /\ last.count = IF empty THEN 0 ELSE last.count0
        /\ (last.op = "FirstMatch" /\ (miss \/ last.alloc_failed)) =>
              last.ret = NULL

\* C10 witness: the allocation of the result array has just failed in Match
\* for a pattern that is in the table, with a non-zero count handed in.
C10_Witness ==
    /\ last.op = "Match"
    /\ last.alloc_failed
    /\ last.count0 > 0
    /\ FillsOfKey(table, last.pattern) # {}

\* The objects held by the table: fill representatives and duplicate payloads.
StoredObjects(t) ==
    {t.fill_heap[f].object : f \in ReachableFills(t)}
      \cup {t.dup_heap[d].object : d \in ReachableDups(t)}

\* The positions of freed where the free strategy was handed `object`.
FreeCalls(object) ==
    {j \in DOMAIN freed : freed[j].ev = "free_function" /\ freed[j].object = object}

\* C11: Hash_Table_Free hands every distinct object stored in the table to
\* the free strategy exactly once, also when the same reference was inserted
\* more than once, and hands it nothing when there is no free strategy.
C11_FreeOncePerObject ==
    freed # << >> =>
        \A o \in Objects :
            Cardinality(FreeCalls(o))
              = IF table.free_function /\ o \in StoredObjects(table) THEN 1 ELSE 0

InsertOps == {"Insert", "InsertNoDuplicate"}
LookupOps == {"Match", "FirstMatch"}

\* C12: over every Insert, InsertNoDuplicate, Match and FirstMatch call,
\* failing or not, Hash_Table_Size after the call is at least what it was
\* before, and it is strictly greater after every successful insertion.
C12_SizeNeverDecreases ==
    [][/\ last'.op \in InsertOps \cup LookupOps
            => Hash_Table_Size(table') >= Hash_Table_Size(table)
       /\ (last'.op \in InsertOps /\ last'.ret = 1)
            => Hash_Table_Size(table') > Hash_Table_Size(table)]_vars

\* C12 witness: an insertion has just added a Duplicate Entry to a table that
\* also holds a collision.
C12_Witness ==
    /\ last.op \in InsertOps
    /\ last.ret = 1
    /\ Len(InsertedWith(last.pattern)) >= 2
    /\ table.number_of_collisions >= 1

\* C13 as stated: when the allocation of the duplicate node fails inside
\* Insert, the call returns 0 and the table differs from what it was before
\* the call.
C13_FailedInsertLeavesFillLinked ==
    [][(/\ last'.op = "Insert"
        /\ last'.alloc_failed
        /\ FillsOfKey(table, last'.pattern) # {})
          => table' # table]_vars

\* C13 amended: an Insert that returns 0 leaves the table exactly as it was,
\* whichever of its allocations failed.
C13_FailedInsertLeavesTable ==
    [][(last'.op = "Insert" /\ last'.ret = 0) => table' = table]_vars

\* C13 witness: Insert has just returned 0 for a key that has a Fill Entry,
\* so the allocation that failed was the one of the duplicate node.
C13_Witness ==
    /\ last.op = "Insert"
    /\ last.alloc_failed
    /\ last.ret = 0
    /\ FillsOfKey(table, last.pattern) # {}

NonNullSlots(t) == {i \in DOMAIN t.buckets : t.buckets[i] # NULL}

\* C14: Hash_Table_Size is the bytes of what is linked into the table
\* (header, bucket pointers, one bucket per non-null slot, one fill per
\* reachable Fill Entry, one duplicate per reachable Duplicate Entry);
\* number_of_buckets_filled is the number of non-null slots and every
\* non-null bucket has at least one Fill Entry.
C14_SizeIsLinkedStructure ==
    freed = << >> =>
        /\ Hash_Table_Size(table)
             = SizeofTable
                 + table.number_of_total_buckets * SizeofBucketPointer
                 + Cardinality(NonNullSlots(table)) * SizeofBucket
                 + Cardinality(ReachableFills(table)) * SizeofFill
                 + Cardinality(ReachableDups(table)) * SizeofDuplicate
        /\ table.number_of_buckets_filled = Cardinality(NonNullSlots(table))
        /\ \A i \in NonNullSlots(table) : Len(BucketFills(table, i)) >= 1

\* C14 witness: Size has just been called on a table with a bucket, a
\* collision and a duplicate.
C14_Witness ==
    /\ last.op = "Size"
    /\ last.ret = Hash_Table_Size(table)
    /\ table.number_of_collisions >= 1
    /\ table.number_of_duplicates >= 1

\* C15: when no stored key matches the pattern, InsertNoDuplicate changes
\* the table as some Insert of the same object from the same state does and
\* returns 1 if that Insert returns 1 and -1 if it returns 0; it never
\* returns 0.
C15_GuardedInsertRefinesInsert ==
    [][(/\ last'.op = "InsertNoDuplicate"
        /\ last'.status # "abort"
        /\ FillsOfKey(table, last'.pattern) = {})
          => /\ last'.ret \in {1, -1}
             /\ \E failAt \in 0 .. 2 :
                  LET r == Hash_Table_Insert(table, last'.object, last'.pattern,
                                             failAt, "silent")
                  IN  /\ table' = r.table
                      /\ last'.ret = IF r.ret = 1 THEN 1 ELSE -1]_vars

\* C15 witness: InsertNoDuplicate has just returned -1 for a key that is
\* not stored, in a bucket that is not empty.
C15_Witness ==
    /\ last.op = "InsertNoDuplicate"
    /\ last.ret = -1
    /\ FillsOfKey(table, last.pattern) = {}
    /\ table.buckets[HashOf(table, last.pattern)] # NULL

\* C16: Match and FirstMatch leave the table as it is: bucket array, fill
\* chains, duplicate chains and the three counters are the same before and
\* after the call, for every pattern and cap.
C16_LookupsLeaveTable ==
    [][last'.op \in LookupOps => table' = table]_vars

\* C16 witness: Match has just returned the objects of a Fill Entry that has
\* a duplicate chain.
C16_Witness ==
    /\ last.op = "Match"
    /\ last.status = "array"
    /\ \E f \in FillsOfKey(table, last.pattern) : FillDuplicates(table, f) # << >>

\* Slot i with everything hanging from it: the bucket node, its fill nodes in
\* chain order, and for each of them its duplicate nodes in chain order.
SlotContents(t, i) ==
    IF t.buckets[i] = NULL THEN << >>
    ELSE LET c == BucketFills(t, i)
         IN  << t.buckets[i], t.bucket_heap[t.buckets[i]],
                [j \in 1 .. Len(c) |->
                    << c[j], t.fill_heap[c[j]],
                       [k \in 1 .. Len(FillDuplicates(t, c[j])) |->
                           << FillDuplicates(t, c[j])[k],
                              t.dup_heap[FillDuplicates(t, c[j])[k]] >>] >>] >>

Counters(t) ==
    << t.number_of_buckets_filled, t.number_of_collisions, t.number_of_duplicates >>

\* C17: Insert changes only the bucket at the hashed index: every other slot
\* with its fill chain and duplicate chains is as before, the capacity is as
\* before, and a successful Insert adds exactly 1 to exactly one counter:
\* buckets-filled if the bucket was empty, duplicates if a Fill Entry
\* compared equal, collisions otherwise.  A failing Insert adds nothing.
C17_InsertTouchesOneBucket ==
    [][(last'.op = "Insert" /\ last'.status # "abort") =>
         LET h == HashOf(table, last'.pattern)
             c == Counters(table)
         IN  /\ table'.number_of_total_buckets = table.number_of_total_buckets
             /\ DOMAIN table'.buckets = DOMAIN table.buckets
             /\ \A i \in DOMAIN table.buckets \ {h} :
                    SlotContents(table', i) = SlotContents(table, i)
             /\ Counters(table')
                  = IF last'.ret # 1 THEN c
                    ELSE IF table.buckets[h] = NULL
                    THEN << c[1] + 1, c[2], c[3] >>
                    ELSE IF FillsOfKey(table, last'.pattern) # {}
                    THEN << c[1], c[2], c[3] + 1 >>
                    ELSE << c[1], c[2] + 1, c[3] >>]_vars

\* C17 witness: Insert has just filled an empty bucket while another bucket
\* holds a Fill Entry with a duplicate.
C17_Witness ==
    /\ last.op = "Insert"
    /\ last.ret = 1
    /\ Len(BucketFills(table, HashOf(table, last.pattern))) = 1
    /\ table.number_of_buckets_filled = 2
    /\ table.number_of_duplicates >= 1

\* The positions of freed with the given event on the given node.
EventsOf(ev, kind, node) ==
    {j \in DOMAIN freed :
        freed[j].ev = ev /\ freed[j].kind = kind /\ freed[j].node = node}

Before(A, B) == \A a \in A, b \in B : a < b

\* C18: in Hash_Table_Free the free strategy gets the payloads of a Fill
\* Entry's duplicate chain, in chain order, before the Fill Entry's own
\* representative; a node is released only after the free call on its
\* payload; the bucket array and then the table record are released last.
C18_FreeOrder ==
    freed # << >> =>
        /\ \A f \in ReachableFills(table) :
              LET d == FillDuplicates(table, f)
              IN  /\ table.free_function =>
                        /\ Cardinality(EventsOf("free_function", "fill", f)) = 1
                        /\ \A j \in DOMAIN d :
                              /\ Cardinality(EventsOf("free_function", "duplicate", d[j])) = 1
                              /\ Before(EventsOf("free_function", "duplicate", d[j]),
                                        EventsOf("free_function", "fill", f))
                              /\ Before(EventsOf("free_function", "duplicate", d[j]),
                                        EventsOf("free", "duplicate", d[j]))
                              /\ \A k \in DOMAIN d : j < k =>
                                    Before(EventsOf("free_function", "duplicate", d[j]),
                                           EventsOf("free_function", "duplicate", d[k]))
                        /\ Before(EventsOf("free_function", "fill", f),
                                  EventsOf("free", "fill", f))
                  /\ Cardinality(EventsOf("free", "fill", f)) = 1
                  /\ \A j \in DOMAIN d :
                        Cardinality(EventsOf("free", "duplicate", d[j])) = 1
        /\ Len(freed) >= 2
        /\ freed[Len(freed) - 1] = FreeEvent("free", "buckets", NULL, NULL)
        /\ freed[Len(freed)] = FreeEvent("free", "table", NULL, NULL)
        /\ \A j \in 1 .. (Len(freed) - 2) : freed[j].kind \notin {"buckets", "table"}

\* C18 witness: a table with a free strategy has been freed that held a Fill
\* Entry with two Duplicate Entries.
C18_Witness ==
    /\ freed # << >>
    /\ table.free_function
    /\ \E f \in ReachableFills(table) : Len(FillDuplicates(table, f)) = 2

\* C19: the index the hash strategy returns is used without a bounds check:
\* whenever it is not below the capacity (always so with capacity 0), Insert
\* and Match access a slot outside the bucket array.
C19_UncheckedIndexLeavesArray ==
    (/\ last.op \in {"Insert", "Match"}
     /\ HashOf(table, last.pattern) >= table.number_of_total_buckets)
        => last.oob

\* C19 witness: Insert has just returned 1 on a table of capacity 0.
C19_Witness ==
    /\ last.op = "Insert"
    /\ last.ret = 1
    /\ last.oob
    /\ table.number_of_total_buckets = 0

NoRepeats(seq) == \A a, b \in DOMAIN seq : a # b => seq[a] # seq[b]

\* C20: for every non-empty bucket first_fill is the head of its fill chain
\* and last_fill the one Fill Entry of it whose next_fill is NULL; for every
\* Fill Entry first_duplicate and last_duplicate are both NULL, or the head
\* and the last node (next_duplicate NULL) of its duplicate chain; no chain
\* runs into itself.
C20_HeadTailConsistent ==
    /\ \A i \in NonNullSlots(table) :
          LET b == table.bucket_heap[table.buckets[i]]
              c == BucketFills(table, i)
          IN  /\ c # << >>
              /\ NoRepeats(c)
              /\ b.first_fill = c[1]
              /\ b.last_fill = c[Len(c)]
              /\ \A j \in DOMAIN c :
                    (table.fill_heap[c[j]].next_fill = NULL) <=> (j = Len(c))
    /\ \A f \in ReachableFills(table) :
          LET n == table.fill_heap[f]
              d == FillDuplicates(table, f)
          IN  IF d = << >>
              THEN n.first_duplicate = NULL /\ n.last_duplicate = NULL
              ELSE /\ NoRepeats(d)
                   /\ n.first_duplicate = d[1]
                   /\ n.last_duplicate = d[Len(d)]
                   /\ \A j \in DOMAIN d :
                         (table.dup_heap[d[j]].next_duplicate = NULL) <=> (j = Len(d))

\* C20 witness: a bucket whose second Fill Entry was appended at the tail
\* and has a Duplicate Entry.
C20_Witness ==
    \E i \in NonNullSlots(table) :
        LET c == BucketFills(table, i)
        IN  /\ Len(c) = 2
            /\ c[2] = 2
            /\ FillDuplicates(table, c[2]) # << >>

====
